---- MODULE Spec2Model ----
(***************************************************************************)
(* The Prisma data layer of the file uploader (src/unnamed/part_000):      *)
(* users, the per-user folder tree, files, share links, and the queries    *)
(* and mutations the controllers call.  Each function modelled is one      *)
(* action, except deleteFolder, whose recursion is modelled one awaited    *)
(* store call at a time with an explicit call stack.  The plain lookups    *)
(* (findUser, findFolder, findFile, ...) change nothing and are left out.  *)
(*                                                                         *)
(* Opaque columns that no operation reads back (firstName, lastName,       *)
(* password, File.path, File.size) are left out of the rows.               *)
(***************************************************************************)
EXTENDS Integers, Sequences, FiniteSets, TLC

\* ---- bounds of the model ------------------------------------------------
MaxFolders == 3
MaxFiles == 2
MaxLinks == 1
MaxTime == 1

\* ---- values --------------------------------------------------------------
\* SQL NULL / JavaScript null (parentId of a home folder)
NULL == 0
\* a JavaScript argument left out (undefined) or the empty form value
ABSENT == 0 - 1

\* the visitors who sign up; NextQuery takes them in this order
Signups == <<"alice", "bob">>
Usernames == {Signups[i] : i \in DOMAIN Signups}
Names == {"Home", "Docs"}
FileNames == {"a.txt"}

UserIds == 1..Cardinality(Usernames)
FolderIds == 1..MaxFolders
FileIds == 1..MaxFiles
LinkIds == 1..MaxLinks
Times == 0..MaxTime

\* deepest chain of nested deleteFolder calls the model follows; a tree of
\* MaxFolders folders never needs more, a cyclic parent relation always does
MaxDepth == MaxFolders + 1

VARIABLES
  users,      \* table User:      id -> [username]
  folders,    \* table Folder:    id -> [name, userId, parentId]
  files,      \* table File:      id -> [name, folderId]
  shareLinks, \* table ShareLink: id -> [folderId, expiresAt]
  nextFolder, \* autoincrement of Folder.id
  nextFile,   \* autoincrement of File.id
  nextLink,   \* next ShareLink.id
  stack,      \* the nested deleteFolder calls in progress, innermost last
  lastOp,     \* the last call made: its name, arguments, outcome and value
  rival       \* a second request, waiting on the event loop: its stack and call

vars == <<users, folders, files, shareLinks, nextFolder, nextFile, nextLink,
          stack, lastOp, rival>>

\* ---- rows and tables -----------------------------------------------------
\* prisma.<model>.create: the table with one more row
Insert(table, id, row) ==
  [k \in (DOMAIN table) \cup {id} |-> IF k = id THEN row ELSE table[k]]

\* prisma.<model>.delete / deleteMany: the table without the rows in ids
DeleteRows(table, ids) == [k \in (DOMAIN table) \ ids |-> table[k]]

\* the relations of the schema: a row may only reference an existing row
UserRelation(userId) == userId \in DOMAIN users
ParentRelation(parentId) == parentId = NULL \/ parentId \in DOMAIN folders
FileFolderRelation(folderId) == folderId \in DOMAIN folders
ShareLinkFolderRelation(folderId) == folderId \in DOMAIN folders

\* ---- the record of a call ------------------------------------------------
Call(op, args, status, val) ==
  [op |-> op, args |-> args, status |-> status, val |-> val]

\* a call that changes the store: what is kept is whether it returned or threw
Returned(op) == Call(op, << >>, "ok", NULL)
Threw(op) == Call(op, << >>, "throw", NULL)

Idle == stack = << >>

TablesUnchanged ==
  UNCHANGED <<users, folders, files, shareLinks, nextFolder, nextFile, nextLink>>

\* ---- users ---------------------------------------------------------------
UsernameTaken(username) == \E id \in DOMAIN users : users[id].username = username

createUser(username) ==
  /\ Idle
  /\ IF UsernameTaken(username)
       THEN /\ users' = users
            /\ lastOp' = Threw("createUser")
       ELSE /\ users' = Insert(users, Cardinality(DOMAIN users) + 1,
                               [username |-> username])
            /\ lastOp' = Returned("createUser")
  /\ UNCHANGED <<rival, folders, files, shareLinks, nextFolder, nextFile, nextLink, stack>>

\* ---- folders: creation ---------------------------------------------------
HomeFolderData(userId) == [name |-> "Home", userId |-> userId, parentId |-> NULL]

createHomeFolder(userId) ==
  /\ Idle
  /\ nextFolder <= MaxFolders
  /\ IF UserRelation(userId)
       THEN /\ folders' = Insert(folders, nextFolder, HomeFolderData(userId))
            /\ nextFolder' = nextFolder + 1
            /\ lastOp' = Returned("createHomeFolder")
       ELSE /\ UNCHANGED <<folders, nextFolder>>
            /\ lastOp' = Threw("createHomeFolder")
  /\ UNCHANGED <<rival, users, files, shareLinks, nextFile, nextLink, stack>>

FolderData(name, userId, parentId) ==
  [name |-> name, userId |-> userId, parentId |-> parentId]

createFolder(name, userId, parentId) ==
  /\ Idle
  /\ nextFolder <= MaxFolders
  /\ IF UserRelation(userId) /\ ParentRelation(parentId)
       THEN /\ folders' = Insert(folders, nextFolder, FolderData(name, userId, parentId))
            /\ nextFolder' = nextFolder + 1
            /\ lastOp' = Returned("createFolder")
       ELSE /\ UNCHANGED <<folders, nextFolder>>
            /\ lastOp' = Threw("createFolder")
  /\ UNCHANGED <<rival, users, files, shareLinks, nextFile, nextLink, stack>>

\* ---- files ----------------------------------------------------------------
FileData(name, folderId) == [name |-> name, folderId |-> folderId]

createFile(name, folderId) ==
  /\ Idle
  /\ nextFile <= MaxFiles
  /\ IF FileFolderRelation(folderId)
       THEN /\ files' = Insert(files, nextFile, FileData(name, folderId))
            /\ nextFile' = nextFile + 1
            /\ lastOp' = Returned("createFile")
       ELSE /\ UNCHANGED <<files, nextFile>>
            /\ lastOp' = Threw("createFile")
  /\ UNCHANGED <<rival, users, folders, shareLinks, nextFolder, nextLink, stack>>

\* findFirst({ name, folderId }) !== null
FilenameExist(name, folderId) ==
  \E id \in DOMAIN files : files[id].name = name /\ files[id].folderId = folderId

checkFilenameExist(name, folderId) ==
  /\ Idle
  /\ lastOp' = Call("checkFilenameExist", <<name, folderId>>, "ok",
                    FilenameExist(name, folderId))
  /\ TablesUnchanged /\ UNCHANGED rival /\ UNCHANGED stack

\* findFirst({ name, parentId }) !== null
FoldernameExist(name, parentId) ==
  \E id \in DOMAIN folders : folders[id].name = name /\ folders[id].parentId = parentId

checkFoldernameExist(name, parentId) ==
  /\ Idle
  /\ lastOp' = Call("checkFoldernameExist", <<name, parentId>>, "ok",
                    FoldernameExist(name, parentId))
  /\ TablesUnchanged /\ UNCHANGED rival /\ UNCHANGED stack

Range(s) == {s[i] : i \in DOMAIN s}

\* ---- the folder tree -------------------------------------------------------
\* findMany({ where: { parentId } }): the rows, as ids
Subfolders(parentId) == {id \in DOMAIN folders : folders[id].parentId = parentId}

\* findMany states no orderBy: the rows come back in an order the store picks
Orders(S) ==
  {ord \in [1..Cardinality(S) -> S] : \A i, j \in 1..Cardinality(S) : ord[i] = ord[j] => i = j}

\* the folders met by following parentId upwards from id, at most n steps
RECURSIVE Up(_, _, _)
Up(table, id, n) ==
  IF n = 0 \/ id \notin DOMAIN table THEN {}
  ELSE LET p == table[id].parentId
       IN  IF p = NULL \/ p \notin DOMAIN table THEN {} ELSE {p} \cup Up(table, p, n - 1)

\* every folder above id in table: its parent, its parent's parent, ...
AncestorsIn(table, id) == Up(table, id, Cardinality(DOMAIN table))

Ancestors(id) == AncestorsIn(folders, id)

\* findChildren(folderId) never returns: some folder below folderId (or folderId
\* itself) is its own ancestor, so the recursion meets it again and again
Diverges(folderId) ==
  \E d \in DOMAIN folders : d \in Ancestors(d) /\ (d = folderId \/ folderId \in Ancestors(d))

\* (seeded fault: the recursive call forgotten, the subfolders alone are pushed)
findChildrenDirect(parentId) == Orders(Subfolders(parentId))

\* findChildren: the ids pushed on descendants, in the order pushed, for every
\* order the store may return the rows of each findMany in
RECURSIVE findChildren(_), pushAll(_)
findChildren(parentId) == UNION {pushAll(ord) : ord \in Orders(Subfolders(parentId))}
pushAll(subfolders) ==
  IF subfolders = << >> THEN {<< >>}
  ELSE {<<Head(subfolders)>> \o below \o rest :
          below \in findChildren(Head(subfolders)), rest \in pushAll(Tail(subfolders))}

findDescendantFolders(folderId) ==
  /\ Idle
  /\ IF Diverges(folderId)
       THEN lastOp' = Call("findDescendantFolders", <<folderId>>, "hang", NULL)
       ELSE \E descendants \in findChildren(folderId) :
              lastOp' = Call("findDescendantFolders", <<folderId>>, "ok", descendants)
  /\ TablesUnchanged /\ UNCHANGED rival /\ UNCHANGED stack

\* (seeded fault: the push of folderId forgotten)
NotInDescendantsOnly(descendants, folderId) == Range(descendants)

\* descendants.push(folderId): the ids the query leaves out
NotIn(descendants, folderId) == Range(Append(descendants, folderId))

\* findMany({ where: { userId, id: { notIn: descendants } } }), as ids
ParentFolders(userId, notIn) ==
  {id \in DOMAIN folders : folders[id].userId = userId /\ id \notin notIn}

findParentFolders(userId, folderId) ==
  /\ Idle
  /\ IF Diverges(folderId)
       THEN lastOp' = Call("findParentFolders", <<userId, folderId>>, "hang", NULL)
       ELSE \E descendants \in findChildren(folderId) :
              lastOp' = Call("findParentFolders", <<userId, folderId>>, "ok",
                             ParentFolders(userId, NotIn(descendants, folderId)))
  /\ TablesUnchanged /\ UNCHANGED rival /\ UNCHANGED stack

\* ---- folders: rename and move ----------------------------------------------
\* newParentId || null
OrNull(newParentId) == IF newParentId \in {NULL, ABSENT} THEN NULL ELSE newParentId

UpdateData(folder, newName, newParentId) ==
  [folder EXCEPT !.name = newName, !.parentId = OrNull(newParentId)]

updateFolder(folderId, newName, newParentId) ==
  /\ Idle
  /\ IF folderId \in DOMAIN folders /\ ParentRelation(OrNull(newParentId))
       THEN /\ folders' = [folders EXCEPT
                             ![folderId] = UpdateData(folders[folderId], newName, newParentId)]
            /\ lastOp' = Returned("updateFolder")
       ELSE /\ folders' = folders
            /\ lastOp' = Threw("updateFolder")
  /\ UNCHANGED <<rival, users, files, shareLinks, nextFolder, nextFile, nextLink, stack>>

\* ---- folders: cascading deletion -------------------------------------------
\* one call of deleteFolder: the folder, the statement it is at, and the
\* subfolders its loop has still to visit
Frame(folderId) == [folderId |-> folderId, pc |-> "files", subfolders |-> << >>]

Top == stack[Len(stack)]

SetTop(frame) == [stack EXCEPT ![Len(stack)] = frame]

\* (seeded faults: a deleteMany whose where matches no row)
FilesInNone(folderId) == {}
ShareLinksOfNone(folderId) == {}

\* (seeded fault: a deleteMany with no where, which matches every file)
FilesInAny(folderId) == DOMAIN files

\* where: { folderId } on File and on ShareLink
FilesIn(folderId) == {id \in DOMAIN files : files[id].folderId = folderId}
ShareLinksOf(folderId) == {id \in DOMAIN shareLinks : shareLinks[id].folderId = folderId}

\* the tables as the call found them
Before == [folders |-> folders, files |-> files, shareLinks |-> shareLinks]

\* the call from a controller
deleteFolder(folderId) ==
  /\ Idle
  /\ stack' = <<Frame(folderId)>>
  /\ lastOp' = Call("deleteFolder", <<folderId>>, "running", Before)
  /\ TablesUnchanged /\ UNCHANGED rival

\* await prisma.file.deleteMany({ where: { folderId } })
deleteFolderFiles ==
  /\ ~Idle /\ Top.pc = "files"
  /\ files' = DeleteRows(files, FilesIn(Top.folderId))
  /\ stack' = SetTop([Top EXCEPT !.pc = "subfolders"])
  /\ UNCHANGED <<rival, users, folders, shareLinks, nextFolder, nextFile, nextLink, lastOp>>

\* const subfolders = await prisma.folder.findMany({ where: { parentId: folderId } })
deleteFolderFind ==
  /\ ~Idle /\ Top.pc = "subfolders"
  /\ \E ord \in Orders(Subfolders(Top.folderId)) :
       stack' = SetTop([Top EXCEPT !.pc = "loop", !.subfolders = ord])
  /\ TablesUnchanged /\ UNCHANGED rival /\ UNCHANGED lastOp

\* (seeded fault: the loop forgotten, the subfolders are left where they are)
deleteFolderLoopNone ==
  /\ ~Idle /\ Top.pc = "loop"
  /\ stack' = SetTop([Top EXCEPT !.pc = "shareLinks"])
  /\ TablesUnchanged /\ UNCHANGED rival /\ UNCHANGED lastOp

\* for (const subfolder of subfolders) await deleteFolder(subfolder.id)
deleteFolderLoop ==
  /\ ~Idle /\ Top.pc = "loop"
  /\ IF Top.subfolders = << >>
       THEN stack' = SetTop([Top EXCEPT !.pc = "shareLinks"])
       ELSE /\ Len(stack) < MaxDepth
            /\ stack' = Append(SetTop([Top EXCEPT !.subfolders = Tail(Top.subfolders)]),
                               Frame(Head(Top.subfolders)))
  /\ TablesUnchanged /\ UNCHANGED rival /\ UNCHANGED lastOp

\* await prisma.shareLink.deleteMany({ where: { folderId } })
deleteFolderShareLinks ==
  /\ ~Idle /\ Top.pc = "shareLinks"
  /\ shareLinks' = DeleteRows(shareLinks, ShareLinksOf(Top.folderId))
  /\ stack' = SetTop([Top EXCEPT !.pc = "folder"])
  /\ UNCHANGED <<rival, users, folders, files, nextFolder, nextFile, nextLink, lastOp>>

\* (seeded fault: folder.deleteMany, which matches no row and throws nothing)
deleteFolderRecordMany ==
  /\ ~Idle /\ Top.pc = "folder"
  /\ folders' = DeleteRows(folders, {Top.folderId} \cap DOMAIN folders)
  /\ stack' = SubSeq(stack, 1, Len(stack) - 1)
  /\ lastOp' = IF Len(stack) = 1 THEN [lastOp EXCEPT !.status = "ok"] ELSE lastOp
  /\ UNCHANGED <<rival, users, files, shareLinks, nextFolder, nextFile, nextLink>>

\* await prisma.folder.delete({ where: { id: folderId } }): a missing row throws,
\* and every catch on the way up rethrows
deleteFolderRecord ==
  /\ ~Idle /\ Top.pc = "folder"
  /\ IF Top.folderId \in DOMAIN folders
       THEN /\ folders' = DeleteRows(folders, {Top.folderId})
            /\ stack' = SubSeq(stack, 1, Len(stack) - 1)
            /\ lastOp' = IF Len(stack) = 1 THEN [lastOp EXCEPT !.status = "ok"] ELSE lastOp
       ELSE /\ folders' = folders
            /\ stack' = << >>
            /\ lastOp' = [lastOp EXCEPT !.status = "throw"]
  /\ UNCHANGED <<rival, users, files, shareLinks, nextFolder, nextFile, nextLink>>

\* ---- share links -------------------------------------------------------------
ShareLinkData(folderId, expiresAt) == [folderId |-> folderId, expiresAt |-> expiresAt]

createShareLink(folderId, expiresAt) ==
  /\ Idle
  /\ nextLink <= MaxLinks
  /\ IF ShareLinkFolderRelation(folderId)
       THEN /\ shareLinks' = Insert(shareLinks, nextLink, ShareLinkData(folderId, expiresAt))
            /\ nextLink' = nextLink + 1
            /\ lastOp' = Returned("createShareLink")
       ELSE /\ UNCHANGED <<shareLinks, nextLink>>
            /\ lastOp' = Threw("createShareLink")
  /\ UNCHANGED <<rival, users, folders, files, nextFolder, nextFile, stack>>

\* what a findUnique that finds no row returns
NoRow == [null |-> TRUE]

\* (seeded fault: findFirst with no where, some link whatever the id)
ShareLinkFoundAny(shareLinkId) ==
  IF DOMAIN shareLinks # {}
    THEN shareLinks[CHOOSE id \in DOMAIN shareLinks : TRUE]
    ELSE NoRow

\* prisma.shareLink.findUnique({ where: { id: shareLinkId } })
ShareLinkFound(shareLinkId) ==
  IF shareLinkId \in DOMAIN shareLinks THEN shareLinks[shareLinkId] ELSE NoRow

\* now is the instant of the call; the function does not read the clock
findShareLink(shareLinkId, now) ==
  /\ Idle
  /\ lastOp' = Call("findShareLink", <<shareLinkId, now>>, "ok", ShareLinkFound(shareLinkId))
  /\ TablesUnchanged /\ UNCHANGED rival /\ UNCHANGED stack

\* ---- two requests ---------------------------------------------------------------
\* await: the running request waits for the store and the event loop resumes
\* the other one where it had stopped
resume ==
  /\ stack' = rival.stack
  /\ lastOp' = rival.lastOp
  /\ rival' = [stack |-> stack, lastOp |-> lastOp]
  /\ UNCHANGED <<users, folders, files, shareLinks, nextFolder, nextFile, nextLink>>

\* ---- the system ----------------------------------------------------------------
Init ==
  /\ users = << >>
  /\ folders = << >>
  /\ files = << >>
  /\ shareLinks = << >>
  /\ nextFolder = 1
  /\ nextFile = 1
  /\ nextLink = 1
  /\ stack = << >>
  /\ lastOp = Call("none", << >>, "ok", NULL)
  /\ rival = [stack |-> << >>, lastOp |-> Call("none", << >>, "ok", NULL)]

Next ==
  \/ \E username \in Usernames : createUser(username)
  \/ \E userId \in UserIds : createHomeFolder(userId)
  \/ \E name \in Names, userId \in UserIds, parentId \in FolderIds \cup {NULL} :
       createFolder(name, userId, parentId)
  \/ \E name \in FileNames, folderId \in FolderIds : createFile(name, folderId)
  \/ \E name \in FileNames, folderId \in FolderIds : checkFilenameExist(name, folderId)
  \/ \E name \in Names, parentId \in FolderIds : checkFoldernameExist(name, parentId)
  \/ \E folderId \in FolderIds : findDescendantFolders(folderId)
  \/ \E userId \in UserIds, folderId \in FolderIds : findParentFolders(userId, folderId)
  \/ \E folderId \in FolderIds, newName \in Names, newParentId \in FolderIds \cup {NULL, ABSENT} :
       updateFolder(folderId, newName, newParentId)
  \/ \E folderId \in FolderIds : deleteFolder(folderId)
  \/ deleteFolderFiles
  \/ deleteFolderFind
  \/ deleteFolderLoop
  \/ deleteFolderShareLinks
  \/ deleteFolderRecord
  \/ \E folderId \in FolderIds, expiresAt \in Times : createShareLink(folderId, expiresAt)
  \/ \E shareLinkId \in LinkIds \cup {MaxLinks + 1}, now \in Times :
       findShareLink(shareLinkId, now)
  \/ resume

\* the whole layer.  Its state space is the product of the four tables; the
\* specifications below each keep the calls one group of properties is about.
Spec == Init /\ [][Next]_vars

\* the calls in progress of deleteFolder, one awaited store call at a time
deleteFolderStep ==
  \/ deleteFolderFiles
  \/ deleteFolderFind
  \/ deleteFolderLoop
  \/ deleteFolderShareLinks
  \/ deleteFolderRecord

\* users and the folder tree alone: no file and no share link is ever created
NextTree ==
  \/ \E username \in Usernames : createUser(username)
  \/ \E userId \in UserIds : createHomeFolder(userId)
  \/ \E name \in Names, userId \in UserIds, parentId \in FolderIds \cup {NULL} :
       createFolder(name, userId, parentId)
  \/ \E folderId \in FolderIds, newName \in Names, newParentId \in FolderIds \cup {ABSENT} :
       updateFolder(folderId, newName, newParentId)
  \/ \E folderId \in FolderIds : deleteFolder(folderId)
  \/ deleteFolderStep

SpecTree == Init /\ [][NextTree]_vars

\* the tree and the two traversals of it: one name, both users
NextQuery ==
  \/ \E i \in 1..Cardinality(DOMAIN users) + 1 : i \in DOMAIN Signups /\ createUser(Signups[i])
  \/ \E userId \in UserIds, parentId \in FolderIds \cup {NULL} :
       createFolder("Docs", userId, parentId)
  \/ \E folderId \in FolderIds, newParentId \in FolderIds \cup {ABSENT} :
       updateFolder(folderId, "Docs", newParentId)
  \/ \E folderId \in FolderIds : findDescendantFolders(folderId)
  \/ \E userId \in UserIds, folderId \in FolderIds : findParentFolders(userId, folderId)

SpecQuery == Init /\ [][NextQuery]_vars

\* one user's forest with its files and share links, and its deletion.  Every
\* shape of forest is built by createFolder alone, and deleteFolder visits the
\* subfolders in any order, so no move is needed to reach a shape.
NextDelete ==
  \/ createUser("alice")
  \/ \E parentId \in FolderIds \cup {NULL} : createFolder("Docs", 1, parentId)
  \/ \E name \in FileNames, folderId \in FolderIds : createFile(name, folderId)
  \/ \E folderId \in FolderIds : createShareLink(folderId, MaxTime)
  \/ \E folderId \in FolderIds : deleteFolder(folderId)
  \/ deleteFolderStep

SpecDelete == Init /\ [][NextDelete]_vars

\* share links on home folders, looked up at any instant
NextShare ==
  \/ createUser("alice")
  \/ createHomeFolder(1)
  \/ \E folderId \in FolderIds, expiresAt \in Times : createShareLink(folderId, expiresAt)
  \/ \E shareLinkId \in LinkIds \cup {MaxLinks + 1}, now \in Times :
       findShareLink(shareLinkId, now)
  \/ \E folderId \in FolderIds : deleteFolder(folderId)
  \/ deleteFolderStep

SpecShare == Init /\ [][NextShare]_vars

\* neither request has called deleteFolder yet
Building == lastOp.op # "deleteFolder" /\ rival.lastOp.op # "deleteFolder"

\* one user's forest is built, and then two requests each call deleteFolder
\* once, each at its own statement of it
NextRace ==
  \/ Building /\ createUser("alice")
  \/ \E parentId \in FolderIds \cup {NULL} : Building /\ createFolder("Docs", 1, parentId)
  \/ \E folderId \in FolderIds : lastOp.op # "deleteFolder" /\ deleteFolder(folderId)
  \/ deleteFolderStep
  \/ resume

SpecRace == Init /\ [][NextRace]_vars

\* a move as its caller makes it: the folder is put under newParentId when
\* newParentId is among the folders the caller's findParentFolders returned for it
validatedMove(folderId, newName, newParentId) ==
  /\ lastOp.op = "findParentFolders" /\ lastOp.status = "ok"
  /\ lastOp.args[2] = folderId
  /\ newParentId \in lastOp.val
  /\ updateFolder(folderId, newName, newParentId)

\* one user's forest and two requests that each move folders, every move
\* validated by the request that makes it
NextMove ==
  \/ createUser("alice")
  \/ \E parentId \in FolderIds \cup {NULL} : createFolder("Docs", 1, parentId)
  \/ \E folderId \in FolderIds : findParentFolders(1, folderId)
  \/ \E folderId \in FolderIds, newParentId \in FolderIds :
       validatedMove(folderId, "Docs", newParentId)
  \/ resume

SpecMove == Init /\ [][NextMove]_vars

\* ---- the data model of the specification ---------------------------------------
\* descendants(folderId): the folders that have folderId above them
Descendants(folderId) == {d \in DOMAIN folders : folderId \in Ancestors(d)} \ {folderId}

\* validMoveTargets(userId, folderId)
ValidMoveTargets(userId, folderId) ==
  {id \in DOMAIN folders : folders[id].userId = userId} \ (Descendants(folderId) \cup {folderId})

\* the home folders of a user
Roots(userId) ==
  {id \in DOMAIN folders : folders[id].userId = userId /\ folders[id].parentId = NULL}

Owns(userId) == \E id \in DOMAIN folders : folders[id].userId = userId

\* following parentId from id reaches null within n steps
RECURSIVE ReachesNull(_, _)
ReachesNull(id, n) ==
  \/ id = NULL
  \/ n > 0 /\ id \in DOMAIN folders /\ ReachesNull(folders[id].parentId, n - 1)

\* ---- claims --------------------------------------------------------------------

\* C1: every user has exactly one folder with parentId = null, whatever calls were
\* made.  Stated for the users that own a folder at all, the reading kindest to
\* the code: createUser itself creates no folder (the caller adds the home
\* folder with a second call).
C1_OneHomePerUser ==
  \A u \in DOMAIN users : Owns(u) => Cardinality(Roots(u)) = 1

\* C2: updateFolder(A, name, B) returns exactly when B is a valid move target of A
\* for A's owner, and a move of A under itself or under one of its descendants
\* throws and leaves A's parentId as it was.
C2_MoveOnlyToValidTarget ==
  [][\A A \in FolderIds, name \in Names, B \in FolderIds :
       (A \in DOMAIN folders /\ updateFolder(A, name, B)) =>
         /\ lastOp'.status = "ok" <=> B \in ValidMoveTargets(folders[A].userId, A)
         /\ B \in Descendants(A) \cup {A} =>
              lastOp'.status = "throw" /\ folders'[A].parentId = folders[A].parentId]_vars

\* C3: the parent relation is acyclic: from every folder, following parentId
\* reaches null without meeting a folder twice.
C3_Acyclic ==
  \A id \in DOMAIN folders :
    id \notin Ancestors(id) /\ ReachesNull(id, Cardinality(DOMAIN folders))

\* no folder is above itself
Forest == \A id \in DOMAIN folders : id \notin Ancestors(id)

\* C4: createFolder with a name that a folder under the same parent folder already
\* has throws and inserts nothing; with a name free under that parent it returns.
C4_DuplicateCreateConflicts ==
  [][\A name \in Names, userId \in UserIds, parentId \in FolderIds :
       (UserRelation(userId) /\ parentId \in DOMAIN folders
          /\ createFolder(name, userId, parentId)) =>
         IF FoldernameExist(name, parentId)
           THEN lastOp'.status = "throw" /\ folders' = folders
           ELSE lastOp'.status = "ok"]_vars

\* C5: no two folders under the same parent folder have the same name.
C5_SiblingNamesUnique ==
  \A a, b \in DOMAIN folders :
    (a # b /\ folders[a].parentId # NULL /\ folders[a].parentId = folders[b].parentId)
      => folders[a].name # folders[b].name

\* the folders that had folderId above them in an earlier folder table
DescendantsIn(table, folderId) ==
  {d \in DOMAIN table : folderId \in AncestorsIn(table, d)} \ {folderId}

\* C6: when deleteFolder(F) returns for a folder F that existed, F is gone, and so
\* are the folders that were below F, the files that were in any of them and the
\* share links that pointed at any of them.
C6_DeleteRemovesSubtree ==
  (lastOp.op = "deleteFolder" /\ lastOp.status = "ok") =>
    LET F == lastOp.args[1]
        before == lastOp.val
        subtree == {F} \cup DescendantsIn(before.folders, F)
    IN  F \in DOMAIN before.folders =>
          /\ subtree \cap DOMAIN folders = {}
          /\ \A id \in DOMAIN files : files[id].folderId \notin subtree
          /\ \A id \in DOMAIN shareLinks : shareLinks[id].folderId \notin subtree

\* a deleteFolder that returned after removing a folder with a subfolder, a file
\* and a share link below or at it
C6_Witness ==
  /\ lastOp.op = "deleteFolder" /\ lastOp.status = "ok"
  /\ LET F == lastOp.args[1]
         before == lastOp.val
         subtree == {F} \cup DescendantsIn(before.folders, F)
     IN  /\ F \in DOMAIN before.folders
         /\ subtree # {F}
         /\ \E id \in DOMAIN before.files : before.files[id].folderId \in subtree
         /\ \E id \in DOMAIN before.shareLinks : before.shareLinks[id].folderId \in subtree \ {F}

\* every share link points at a folder that exists
NoOrphanShareLink ==
  \A id \in DOMAIN shareLinks : shareLinks[id].folderId \in DOMAIN folders

\* C7: a share link is never orphaned: at every step, also in the middle of a
\* deleteFolder, each share link points at an existing folder, and createShareLink
\* on a folder that does not exist throws and creates nothing.
C7_ShareLinkNeverOrphaned ==
  [][/\ NoOrphanShareLink /\ NoOrphanShareLink'
     /\ \A folderId \in FolderIds, expiresAt \in Times :
          (folderId \notin DOMAIN folders /\ createShareLink(folderId, expiresAt)) =>
            lastOp'.status = "throw" /\ shareLinks' = shareLinks]_vars

\* a deleteFolder that returned after removing a folder that had a share link
C7_Witness ==
  /\ lastOp.op = "deleteFolder" /\ lastOp.status = "ok"
  /\ \E id \in DOMAIN lastOp.val.shareLinks :
       /\ lastOp.val.shareLinks[id].folderId \notin DOMAIN folders
       /\ id \notin DOMAIN shareLinks

\* what a caller makes of the value findShareLink gave it at the instant now
CallerReads(val, now) ==
  IF val = NoRow THEN "NotFound"
  ELSE IF now < val.expiresAt THEN "Valid" ELSE "Expired"

Expired == [expired |-> TRUE]

C10_DescendantsExact ==
  lastOp.op = "findDescendantFolders" =>
    /\ Forest => lastOp.status = "ok"
    /\ lastOp.status = "ok" =>
         /\ Range(lastOp.val) = Descendants(lastOp.args[1])
         /\ Len(lastOp.val) = Cardinality(Descendants(lastOp.args[1]))
         /\ lastOp.args[1] \notin Range(lastOp.val)

\* a findDescendantFolders that returned a child and a grandchild
C10_Witness ==
  /\ lastOp.op = "findDescendantFolders" /\ lastOp.status = "ok"
  /\ \E c, g \in Range(lastOp.val) :
       folders[c].parentId = lastOp.args[1] /\ folders[g].parentId = c


\* ---- C11 ------------------------------------------------------------------------
\* the tables are as the call of deleteFolder found them
TablesAsBefore ==
  /\ folders = lastOp.val.folders
  /\ files = lastOp.val.files
  /\ shareLinks = lastOp.val.shareLinks

\* C11: a call of deleteFolder on a folderId that names no Folder never returns
\* normally, and at every statement of it, up to the one that throws, every
\* Folder, File and ShareLink is as the call found it.
C11_DeleteMissingIsNoOp ==
  (lastOp.op = "deleteFolder" /\ lastOp.args[1] \notin DOMAIN lastOp.val.folders) =>
    /\ lastOp.status # "ok"
    /\ TablesAsBefore

\* a folder was deleted, deleted again, and the second call threw, with a
\* folder, a file and a share link in the store
C11_Witness ==
  /\ lastOp.op = "deleteFolder"
  /\ lastOp.status = "throw"
  /\ lastOp.args[1] < nextFolder
  /\ lastOp.args[1] \notin DOMAIN lastOp.val.folders
  /\ DOMAIN folders # {}
  /\ DOMAIN files # {}
  /\ DOMAIN shareLinks # {}

\* ---- C12 ------------------------------------------------------------------------
\* parentId names a Folder of userId
OwnedBy(userId, parentId) ==
  parentId \in DOMAIN folders /\ folders[parentId].userId = userId

\* C12: a call createFolder(name, userId, parentId) whose parentId does not name
\* an existing Folder owned by userId throws and inserts no Folder.  Stated for
\* a parentId that is not null, the reading kindest to the code.
C12_CreateRejectsInvalidParent ==
  [][\A name \in Names, userId \in UserIds, parentId \in FolderIds :
       (createFolder(name, userId, parentId) /\ ~OwnedBy(userId, parentId)) =>
         lastOp'.status = "throw" /\ folders' = folders]_vars

\* ---- C13 ------------------------------------------------------------------------
\* every Folder that has a parent has the owner of its parent
SameOwnerAsParent ==
  \A id \in DOMAIN folders :
    folders[id].parentId \in DOMAIN folders =>
      folders[folders[id].parentId].userId = folders[id].userId

\* C13: no step changes the userId of a Folder, a parentId only changes to a
\* Folder of the same user, and so every Folder that is not a root has the
\* userId of its parent.
C13_OwnerFixedAndShared ==
  [][/\ \A id \in DOMAIN folders \cap DOMAIN folders' :
          /\ folders'[id].userId = folders[id].userId
          /\ (folders'[id].parentId # folders[id].parentId /\ folders'[id].parentId # NULL) =>
               /\ folders'[id].parentId \in DOMAIN folders'
               /\ folders'[folders'[id].parentId].userId = folders[id].userId
     /\ SameOwnerAsParent']_vars

\* ---- C14 ------------------------------------------------------------------------
\* C14: updateFolder with newParentId null or absent leaves the parentId of the
\* folder as it was, or makes the folder a root when its owner has no other
\* root; it never makes a folder that has a parent a second root of its owner.
C14_RenameKeepsParent ==
  [][\A folderId \in FolderIds, newName \in Names, newParentId \in {NULL, ABSENT} :
       (folderId \in DOMAIN folders /\ updateFolder(folderId, newName, newParentId)) =>
         \/ folders'[folderId].parentId = folders[folderId].parentId
         \/ /\ folders'[folderId].parentId = NULL
            /\ Roots(folders[folderId].userId) \ {folderId} = {}]_vars

\* ---- C15 ------------------------------------------------------------------------
\* a File called name is in folderId
FileNamed(name, folderId) ==
  \E id \in DOMAIN files : files[id].name = name /\ files[id].folderId = folderId

\* no two Files of one Folder have the same name
FileNamesUnique ==
  \A a, b \in DOMAIN files :
    (a # b /\ files[a].folderId = files[b].folderId) => files[a].name # files[b].name

\* C15: a call createFile(name, folderId) made while a File called name is in
\* folderId throws and inserts no File, and so no two Files of one Folder ever
\* have the same name.
C15_DuplicateFileConflicts ==
  [][/\ \A name \in FileNames, folderId \in FolderIds :
          (createFile(name, folderId) /\ FileNamed(name, folderId)) =>
            lastOp'.status = "throw" /\ files' = files
     /\ FileNamesUnique']_vars

\* ---- C16 ------------------------------------------------------------------------
\* a call of deleteFolder that has returned or thrown
Ended(call) == call.op = "deleteFolder" /\ call.status \in {"ok", "throw"}

\* the folder a call of deleteFolder named and the folders below it, as the call
\* found them
SubtreeOf(call) ==
  IF call.args[1] \in DOMAIN call.val.folders
    THEN {call.args[1]} \cup DescendantsIn(call.val.folders, call.args[1])
    ELSE {}

\* C16: when the calls of deleteFolder of two requests have both ended, every
\* Folder that was in the subtree of both has been removed by one of them: the
\* other found it gone.
C16_OverlapRemovedOnce ==
  (Ended(lastOp) /\ Ended(rival.lastOp)) =>
    SubtreeOf(lastOp) \cap SubtreeOf(rival.lastOp) \cap DOMAIN folders = {}

\* ---- C17 ------------------------------------------------------------------------
\* C17: when a request writes a move that its findParentFolders validated, the
\* new parent is still a valid move target of the folder at the write, whatever
\* the other request wrote in between, and the write commits no cycle.
C17_MoveAtomicWithValidation ==
  [][\A folderId \in FolderIds, newParentId \in FolderIds :
       validatedMove(folderId, "Docs", newParentId) =>
         /\ newParentId \in ValidMoveTargets(lastOp.args[1], folderId)
         /\ Forest']_vars

\* ---- C18 ------------------------------------------------------------------------
\* every parentId names a Folder that is in the store
NoDanglingParent ==
  \A id \in DOMAIN folders :
    folders[id].parentId = NULL \/ folders[id].parentId \in DOMAIN folders

\* C18: deleteFolder removes a subtree from the leaves up: the step that removes
\* a Folder finds no Folder under it, no File in it and no ShareLink to it, and
\* so at every step of the call, as any reader of the store would see it, no
\* Folder has a parentId naming a Folder already removed.
C18_DeletePostOrder ==
  [][/\ \A id \in DOMAIN folders \ DOMAIN folders' :
          /\ \A sub \in DOMAIN folders : folders[sub].parentId # id
          /\ \A f \in DOMAIN files : files[f].folderId # id
          /\ \A l \in DOMAIN shareLinks : shareLinks[l].folderId # id
     /\ NoDanglingParent']_vars

\* in the middle of a deleteFolder: one folder below the folder named is gone,
\* another is still there, and so is the folder named
C18_Witness ==
  /\ lastOp.op = "deleteFolder" /\ lastOp.status = "running"
  /\ LET F == lastOp.args[1]
         below == DescendantsIn(lastOp.val.folders, F)
     IN  /\ F \in DOMAIN folders
         /\ below \ DOMAIN folders # {}
         /\ below \cap DOMAIN folders # {}

\* ---- C19 ------------------------------------------------------------------------
\* C19: in every state of the store that calls of the data layer lead to, a
\* call findDescendantFolders(F) for a Folder F of the store returns: its walk
\* down the subfolders comes to an end.  (deleteFolder walks the same
\* subfolders with the same recursion.)
C19_DescendantsWalkEnds ==
  (lastOp.op = "findDescendantFolders" /\ lastOp.args[1] \in DOMAIN folders) =>
    lastOp.status = "ok"

\* ---- C20 ------------------------------------------------------------------------
\* C20: from the call of deleteFolder(F) to its end, every Folder that is neither
\* F nor was below F, every File in such a Folder and every ShareLink to such a
\* Folder is in the store as the call found it.
C20_DeleteLeavesTheRest ==
  lastOp.op = "deleteFolder" =>
    LET F == lastOp.args[1]
        before == lastOp.val
        subtree == {F} \cup DescendantsIn(before.folders, F)
    IN  /\ \A id \in DOMAIN before.folders \ subtree :
             id \in DOMAIN folders /\ folders[id] = before.folders[id]
        /\ \A id \in DOMAIN before.files :
             before.files[id].folderId \notin subtree =>
               id \in DOMAIN files /\ files[id] = before.files[id]
        /\ \A id \in DOMAIN before.shareLinks :
             before.shareLinks[id].folderId \notin subtree =>
               id \in DOMAIN shareLinks /\ shareLinks[id] = before.shareLinks[id]

\* a deleteFolder that returned after removing a folder with a file in it, with
\* another folder, a file in that one and a share link to it left in the store
C20_Witness ==
  /\ lastOp.op = "deleteFolder" /\ lastOp.status = "ok"
  /\ LET F == lastOp.args[1]
         before == lastOp.val
         subtree == {F} \cup DescendantsIn(before.folders, F)
     IN  /\ F \in DOMAIN before.folders
         /\ \E id \in DOMAIN before.files : before.files[id].folderId \in subtree
         /\ DOMAIN before.folders \ subtree # {}
         /\ \E id \in DOMAIN before.files : before.files[id].folderId \notin subtree
         /\ \E id \in DOMAIN before.shareLinks : before.shareLinks[id].folderId \notin subtree

====
